---- MODULE Spec2Model ----
(***************************************************************************)
(* OpenHeart: biometric state distribution and validation layer.           *)
(*                                                                         *)
(* Conventions.  stress_index and confidence are real numbers in the       *)
(* source; here they are integers counting thousandths (0.85 is 850, the   *)
(* threshold 0.7 is 700).  Timestamps, ages and the clock are milliseconds, *)
(* as in the source.  A text (file content, socket payload) is a record    *)
(* [lit, fields, closed]: lit says what kind of document it is, fields is   *)
(* the sequence of <<key, value>> pairs in the order they were written and *)
(* closed says whether the document was written to its end.                *)
(***************************************************************************)
EXTENDS Integers, Sequences, FiniteSets, TLC

\* ---------------------------------------------------------------- bounds
MaxTicks == 2
MaxPid == 1
MaxEvals == 2
MaxSignal == 120

\* ------------------------------------------------------------- constants
MAX_STALENESS_MS == 60000

\* let attempts = 10 in stopDaemon.
StopAttempts == 10

HalfStaleness == MAX_STALENESS_MS \div 2

Pids == 1..MaxPid

\* The instants the clock takes: multiples of half the staleness ceiling,
\* and the millisecond after each.
Times == {k * HalfStaleness + e : k \in 0..MaxTicks, e \in {0, 1}}

FlowStates == {"CALM", "NORMAL", "STRESSED", "DEEP_FLOW", "UNKNOWN"}

\* --------------------------------------------------------- JSON documents
\* The value undefined.
Undefined == [json |-> "undefined"]

\* JSON null, as JSON.parse("null") returns it.
JsonNull == [json |-> "null"]

IsObject(v) == "stress_index" \in DOMAIN v

StateKeys == <<"stress_index", "flow_state", "timestamp", "ttl_seconds",
               "daemon_pid", "confidence", "source">>

NoFile == [lit |-> "absent", fields |-> <<>>, closed |-> FALSE]

GarbageText == [lit |-> "garbage", fields |-> <<>>, closed |-> TRUE]

\* JSON.stringify(value, null, 2): the fields in insertion order.
JSON_stringify(v) ==
    IF IsObject(v)
    THEN [lit |-> "object",
          fields |-> [i \in 1..Len(StateKeys) |-> <<StateKeys[i], v[StateKeys[i]]>>],
          closed |-> TRUE]
    ELSE [lit |-> "null", fields |-> <<>>, closed |-> TRUE]

\* The first n fields of a document whose writer has not finished.
Truncated(t, n) == [lit |-> t.lit, fields |-> SubSeq(t.fields, 1, n), closed |-> FALSE]

JSON_parse_throws(t) == t.lit \notin {"object", "null"} \/ ~t.closed

\* JSON.parse(text) of a text it accepts: the order of the fields is forgotten.
JSON_parse(t) ==
    IF t.lit = "null" THEN JsonNull
    ELSE LET pairs == {t.fields[i] : i \in 1..Len(t.fields)}
         IN [k \in {p[1] : p \in pairs} |-> (CHOOSE p \in pairs : p[1] = k)[2]]

\* A text that does not parse to a State Record: JSON.parse throws on it, or
\* it parses to a value that is no object (null).
Unparsable(t) == JSON_parse_throws(t) \/ ~IsObject(JSON_parse(t))

\* ------------------------------------------------------------- Validator
getDefaultState(t) ==
    [stress_index |-> 0, flow_state |-> "UNKNOWN", timestamp |-> t,
     ttl_seconds |-> 0, daemon_pid |-> -1, confidence |-> 0, source |-> "default"]

\* A pid names a running process when the table holds it as not dead.
Running(pid, ps) == pid \in DOMAIN ps /\ ps[pid] # "dead"

\* process.kill(pid, 0) returns for a process the caller may signal, and
\* throws for a pid that names no process (ESRCH) or a process of another
\* user (EPERM).
KillSucceeds(pid, ps) == pid \in DOMAIN ps /\ ps[pid] = "alive"

\* Mutant: the producer is not probed; any positive pid counts as alive.
isDaemonAlive_positive(pid, ps) == pid > 0

\* Mutant: the pid <= 0 guard is missing; kill(0, 0) and kill(-1, 0) signal
\* the caller's own process group and succeed.
isDaemonAlive_noGuard(pid, ps) == IF pid <= 0 THEN TRUE ELSE KillSucceeds(pid, ps)

isDaemonAlive(pid, ps) == IF pid <= 0 THEN FALSE ELSE KillSucceeds(pid, ps)

\* Mutant: staleness is judged by the record's own ttl_seconds.
validateState_ttl(state, t, ps) ==
    IF t - state.timestamp > state.ttl_seconds * 1000 THEN getDefaultState(t)
    ELSE IF ~isDaemonAlive(state.daemon_pid, ps) THEN getDefaultState(t)
    ELSE state

\* Mutant: the producer is not probed.
validateState_noProbe(state, t, ps) ==
    IF t - state.timestamp > MAX_STALENESS_MS THEN getDefaultState(t)
    ELSE state

\* Mutant: a record older than its own ttl_seconds is discarded as well.
validateState_expiry(state, t, ps) ==
    IF t - state.timestamp > MAX_STALENESS_MS THEN getDefaultState(t)
    ELSE IF t - state.timestamp > state.ttl_seconds * 1000 THEN getDefaultState(t)
    ELSE IF ~isDaemonAlive(state.daemon_pid, ps) THEN getDefaultState(t)
    ELSE state

validateState(state, t, ps) ==
    IF t - state.timestamp > MAX_STALENESS_MS THEN getDefaultState(t)
    ELSE IF ~isDaemonAlive(state.daemon_pid, ps) THEN getDefaultState(t)
    ELSE state

\* An outcome of a call: it returned val, or it threw.
Returned(v) == [threw |-> FALSE, val |-> v]
Thrown == [threw |-> TRUE, val |-> JsonNull]

\* validateState(null) throws a TypeError at state.timestamp.
validateCall(v, t, ps) ==
    IF IsObject(v) THEN Returned(validateState(v, t, ps)) ELSE Thrown

\* ------------------------------------------------------- Transport: fetch
\* The settled promise of readFromSocket, given what the endpoint does.
readFromSocket(s) ==
    CASE s.status = "absent" -> Thrown
      [] s.status = "refuse" -> Thrown
      [] s.status = "silent" -> Thrown
      [] OTHER -> IF JSON_parse_throws(s.payload) THEN Thrown
                  ELSE Returned(JSON_parse(s.payload))

readFromFile(f) ==
    IF f = NoFile THEN Thrown
    ELSE IF JSON_parse_throws(f) THEN Thrown
    ELSE Returned(JSON_parse(f))

NotValidated == [called |-> FALSE, arg |-> JsonNull]
ValidatedFrom(v) == [called |-> TRUE, arg |-> v]

\* Mutant: validateState is called after the inner try block, so what it
\* throws reaches the caller.
readBiometricState_uncaught(sr, f, t, ps) ==
    LET sockTry == IF sr.threw THEN Thrown ELSE validateCall(sr.val, t, ps)
        fr == readFromFile(f)
        fileTry == IF fr.threw THEN Thrown ELSE validateCall(fr.val, t, ps)
    IN IF ~sockTry.threw
       THEN [threw |-> FALSE, state |-> sockTry.val, trace |-> <<"socket">>,
             validated |-> ValidatedFrom(sr.val), at |-> t]
       ELSE IF fr.threw
       THEN [threw |-> FALSE, state |-> getDefaultState(t),
             trace |-> <<"socket", "file", "default">>,
             validated |-> NotValidated, at |-> t]
       ELSE [threw |-> fileTry.threw, state |-> fileTry.val, trace |-> <<"socket", "file">>,
             validated |-> ValidatedFrom(fr.val), at |-> t]

\* Mutant: a socket record the Validator discards sends fetch on to the file.
readBiometricState_retry(sr, f, t, ps) ==
    LET sockTry == IF sr.threw THEN Thrown ELSE validateCall(sr.val, t, ps)
        sockKept == ~sockTry.threw /\ sockTry.val = sr.val
        fr == readFromFile(f)
        fileTry == IF fr.threw THEN Thrown ELSE validateCall(fr.val, t, ps)
    IN IF sockKept
       THEN [threw |-> FALSE, state |-> sockTry.val, trace |-> <<"socket">>,
             validated |-> ValidatedFrom(sr.val), at |-> t]
       ELSE IF ~fileTry.threw
       THEN [threw |-> FALSE, state |-> fileTry.val, trace |-> <<"socket", "file">>,
             validated |-> ValidatedFrom(fr.val), at |-> t]
       ELSE [threw |-> FALSE, state |-> getDefaultState(t),
             trace |-> <<"socket", "file", "default">>,
             validated |-> NotValidated, at |-> t]

\* Mutant: the file is consulted first, and the socket result only when the
\* file yields nothing.
readBiometricState_fileFirst(sr, f, t, ps) ==
    LET sockTry == IF sr.threw THEN Thrown ELSE validateCall(sr.val, t, ps)
        fr == readFromFile(f)
        fileTry == IF fr.threw THEN Thrown ELSE validateCall(fr.val, t, ps)
    IN IF ~fileTry.threw
       THEN [threw |-> FALSE, state |-> fileTry.val, trace |-> <<"file">>,
             validated |-> ValidatedFrom(fr.val), at |-> t]
       ELSE IF ~sockTry.threw
       THEN [threw |-> FALSE, state |-> sockTry.val, trace |-> <<"file", "socket">>,
             validated |-> ValidatedFrom(sr.val), at |-> t]
       ELSE [threw |-> FALSE, state |-> getDefaultState(t),
             trace |-> <<"file", "socket", "default">>,
             validated |-> NotValidated, at |-> t]

\* readBiometricState after readFromSocket has settled as sr: the outcome,
\* the strategies it went through, and the argument of the validateState
\* call whose result it returns.
readBiometricState(sr, f, t, ps) ==
    LET sockTry == IF sr.threw THEN Thrown ELSE validateCall(sr.val, t, ps)
        fr == readFromFile(f)
        fileTry == IF fr.threw THEN Thrown ELSE validateCall(fr.val, t, ps)
    IN IF ~sockTry.threw
       THEN [threw |-> FALSE, state |-> sockTry.val, trace |-> <<"socket">>,
             validated |-> ValidatedFrom(sr.val), at |-> t]
       ELSE IF ~fileTry.threw
       THEN [threw |-> FALSE, state |-> fileTry.val, trace |-> <<"socket", "file">>,
             validated |-> ValidatedFrom(fr.val), at |-> t]
       ELSE [threw |-> FALSE, state |-> getDefaultState(t),
             trace |-> <<"socket", "file", "default">>,
             validated |-> NotValidated, at |-> t]

\* -------------------------------------------------------- Precept Engine
NoteStress(s) ==
    <<"[SYSTEM: User Biophysical Context]", "Stress Level: HIGH (", ToString(s), ")",
      "Recommendation: Keep responses concise and direct. Avoid follow-up questions unless essential.">>

NoteFlow ==
    <<"[SYSTEM: User is in DEEP FLOW state]",
      "Recommendation: Avoid interrupting with clarifying questions. Provide complete answers without requiring user input.">>

\* Mutant: the stress threshold is inclusive.
Rule1_inclusive(state) == state.stress_index >= 700 /\ state.confidence > 500

\* Mutant: the confidence guard of rule 2 is inclusive.
Rule2_inclusive(state) == state.flow_state = "DEEP_FLOW" /\ state.confidence >= 500

Rule1(state) == state.stress_index > 700 /\ state.confidence > 500
Rule2(state) == state.flow_state = "DEEP_FLOW" /\ state.confidence > 500

\* The synchronous part of the message:pre_process hook, after fetch has
\* returned state: the event context it leaves.  A note is the sequence of
\* its lines, <<>> for none; rule 2 appends "\n" and its note to
\* (biometricNote || ""), so its note follows a blank line when there was
\* no note.
applyPrecepts(c, state) ==
    LET base == IF c.isArray THEN c.systemPrecepts ELSE <<>>
        p1 == IF Rule1(state) THEN Append(base, "CONCISE_MODE") ELSE base
        n1 == IF Rule1(state) THEN NoteStress(state.stress_index) ELSE c.biometricNote
        p2 == IF Rule2(state) THEN Append(p1, "NO_INTERRUPT") ELSE p1
        n2 == IF Rule2(state) THEN (IF n1 = <<>> THEN <<"">> ELSE n1) \o NoteFlow ELSE n1
    IN [isArray |-> TRUE, systemPrecepts |-> p2, biometricNote |-> n2,
        biometrics |-> state]


\* ------------------------------------------------------------ Normalizer
\* hrv in ms, hr in bpm; the results count thousandths.
\* Mutant: the band limits of hrvToStress are exclusive.
hrvToStress_exclusive(hrv) ==
    IF hrv > 100 THEN 100
    ELSE IF hrv > 80 THEN 200
    ELSE IF hrv > 60 THEN 400
    ELSE IF hrv > 40 THEN 600
    ELSE IF hrv > 25 THEN 800
    ELSE 950

hrvToStress(hrv) ==
    IF hrv >= 100 THEN 100
    ELSE IF hrv >= 80 THEN 200
    ELSE IF hrv >= 60 THEN 400
    ELSE IF hrv >= 40 THEN 600
    ELSE IF hrv >= 25 THEN 800
    ELSE 950

\* Mutant: the band limits of heartRateToStress are inclusive.
heartRateToStress_inclusive(hr) ==
    IF hr <= 60 THEN 200
    ELSE IF hr <= 70 THEN 300
    ELSE IF hr <= 80 THEN 500
    ELSE IF hr <= 90 THEN 600
    ELSE IF hr <= 100 THEN 750
    ELSE 900

heartRateToStress(hr) ==
    IF hr < 60 THEN 200
    ELSE IF hr < 70 THEN 300
    ELSE IF hr < 80 THEN 500
    ELSE IF hr < 90 THEN 600
    ELSE IF hr < 100 THEN 750
    ELSE 900

\* Mutant: the band limits of stressToFlowState are inclusive.
stressToFlowState_inclusive(stress) ==
    IF stress <= 250 THEN "DEEP_FLOW"
    ELSE IF stress <= 400 THEN "CALM"
    ELSE IF stress <= 650 THEN "NORMAL"
    ELSE "STRESSED"

stressToFlowState(stress) ==
    IF stress < 250 THEN "DEEP_FLOW"
    ELSE IF stress < 400 THEN "CALM"
    ELSE IF stress < 650 THEN "NORMAL"
    ELSE "STRESSED"

\* Math.round(x * 100) / 100: to the nearest hundredth, halves upwards.
RoundToHundredths(x) == ((x + 5) \div 10) * 10

\* A request body is [has, hrv, heart_rate, timestamp, source]: has is the
\* set of the fields the body carries; a field it does not carry is undefined.
Defined(d, k) == k \in d.has

\* !d[k] for a numeric field: undefined and 0 are falsy.
FalsyNumber(d, k) == ~Defined(d, k) \/ d[k] = 0

\* !d[k] for a string field: undefined and "" are falsy.
FalsyString(d, k) == ~Defined(d, k) \/ d[k] = ""

\* The input validation of handleBiometricsPost.
MissingSignal(d) == FalsyNumber(d, "hrv") /\ FalsyNumber(d, "heart_rate")

\* The state object handleBiometricsPost builds at time t.
MobileState(d, t) ==
    LET stress_index == IF Defined(d, "hrv") THEN hrvToStress(d.hrv)
                        ELSE IF Defined(d, "heart_rate") THEN heartRateToStress(d.heart_rate)
                        ELSE 500
    IN [stress_index |-> RoundToHundredths(stress_index),
        flow_state |-> stressToFlowState(stress_index),
        timestamp |-> IF FalsyNumber(d, "timestamp") THEN t ELSE d.timestamp,
        ttl_seconds |-> 300,
        daemon_pid |-> -1,
        confidence |-> IF FalsyNumber(d, "hrv") THEN 600 ELSE 900,
        source |-> IF FalsyString(d, "source") THEN "mobile_healthkit" ELSE d.source]

Updated(state) ==
    [code |-> 200, status |-> "updated", stress_index |-> state.stress_index,
     flow_state |-> state.flow_state, source |-> state.source]

BadRequest == [code |-> 400, error |-> "Missing required field: hrv or heart_rate"]

ServerError == [code |-> 500, error |-> "Internal server error"]

\* ------------------------------------------------------- status endpoint
\* The record readCurrentState returns when state.json does not exist.
NoStateFileRecord ==
    [stress_index |-> 0, flow_state |-> "UNKNOWN", timestamp |-> 0,
     daemon_pid |-> -1, source |-> "none"]

\* readCurrentState: the parsed file, or the record above without a file.
readCurrentState(f) ==
    IF f # NoFile
    THEN IF JSON_parse_throws(f) THEN Thrown ELSE Returned(JSON_parse(f))
    ELSE Returned(NoStateFileRecord)

\* handleStatusGet on what readCurrentState gave; reading a field of null
\* throws inside the try block.
StatusResponse(r, t) ==
    IF r.threw \/ r.val = JsonNull
    THEN [code |-> 200, status |-> "degraded", daemon_running |-> FALSE,
          error |-> "Unable to read state"]
    ELSE [code |-> 200, status |-> "ok", daemon_running |-> r.val.daemon_pid > 0,
          stress_index |-> r.val.stress_index, flow_state |-> r.val.flow_state,
          source |-> r.val.source, age_ms |-> t - r.val.timestamp]

\* ------------------------------------------------------ simulate command
\* Options are [has, preset, stress, flow], strings as typed on the command
\* line; an option not given is undefined.
PresetNames == {"high-stress", "calm", "deep-flow", "normal"}

PRESETS(name) ==
    CASE name = "high-stress" -> [stress_index |-> 900, flow_state |-> "STRESSED"]
      [] name = "calm" -> [stress_index |-> 200, flow_state |-> "CALM"]
      [] name = "deep-flow" -> [stress_index |-> 150, flow_state |-> "DEEP_FLOW"]
      [] name = "normal" -> [stress_index |-> 500, flow_state |-> "NORMAL"]

\* parseFloat of the strings the model types; NaN is [nan |-> TRUE].
parseFloat(str) ==
    CASE str = "0.9" -> [nan |-> FALSE, val |-> 900]
      [] str = "0.1" -> [nan |-> FALSE, val |-> 100]
      [] str = "0" -> [nan |-> FALSE, val |-> 0]
      [] str = "1.5" -> [nan |-> FALSE, val |-> 1500]
      [] OTHER -> [nan |-> TRUE, val |-> 0]

toUpperCase(str) ==
    CASE str = "calm" -> "CALM"
      [] str = "deep_flow" -> "DEEP_FLOW"
      [] str = "unknown" -> "UNKNOWN"
      [] str = "bogus" -> "BOGUS"
      [] OTHER -> str

validStates == {"CALM", "NORMAL", "STRESSED", "DEEP_FLOW", "UNKNOWN"}

\* simulate(options) run at time t by the process pid: the exit code, and
\* the state it writes when it gets that far.
simulate(o, t, pid) ==
    LET presetGiven == Defined(o, "preset") /\ o.preset # ""
        stressGiven == Defined(o, "stress") /\ o.stress # ""
        flowGiven == Defined(o, "flow") /\ o.flow # ""
        unknownPreset == presetGiven /\ o.preset \notin PresetNames
        parsed == parseFloat(o.stress)
        badStress == stressGiven /\ (parsed.nan \/ parsed.val < 0 \/ parsed.val > 1000)
        badFlow == flowGiven /\ toUpperCase(o.flow) \notin validStates
        s0 == IF presetGiven /\ ~unknownPreset THEN PRESETS(o.preset).stress_index ELSE 500
        f0 == IF presetGiven /\ ~unknownPreset THEN PRESETS(o.preset).flow_state ELSE "NORMAL"
        stress_index == IF stressGiven THEN parsed.val ELSE s0
        flow_state == IF flowGiven THEN toUpperCase(o.flow) ELSE f0
    IN IF unknownPreset \/ badStress \/ badFlow
       THEN [exit |-> 1, wrote |-> Undefined]
       ELSE [exit |-> 0,
             wrote |-> [stress_index |-> stress_index, flow_state |-> flow_state,
                        timestamp |-> t, ttl_seconds |-> 300, daemon_pid |-> pid,
                        confidence |-> 1000, source |-> "simulation"]]

\* ------------------------------------------------------------------ state
VARIABLES
    now,        \* the clock, ms
    procs,      \* the process table: pid -> "alive" | "foreign" | "dead"
    sock,       \* the endpoint state.sock: [status, payload]
    stateFile,  \* the content of state.json, or NoFile
    pc,         \* where the message:pre_process hook is
    sockResult, \* the settled promise of readFromSocket
    ctx,        \* event.context of the event being processed
    evals,      \* how many times the hook has run on this event context
    fetched,    \* what readBiometricState returned to the hook
    evaluation, \* the event context the hook's rules started from
    post,       \* the POST /openheart/biometrics handler in flight
    out,        \* the outcome of the last request or command that completed
    pidFile,    \* the content of daemon.pid, or NoPidFile
    ctl         \* the lifecycle command (start, stop) in flight

vars == <<now, procs, sock, stateFile, pc, sockResult, ctx, evals, fetched, evaluation,
          post, out, pidFile, ctl>>

ctlVars == <<pidFile, ctl>>

envVars == <<now, procs>>
hookVars == <<pc, sockResult, ctx, evals, fetched, evaluation>>

NoSocket == [status |-> "absent", payload |-> GarbageText]

NoFetch == [threw |-> FALSE, state |-> Undefined, trace |-> <<>>,
            validated |-> NotValidated, at |-> 0]

EmptyContext == [isArray |-> FALSE, systemPrecepts |-> <<>>, biometricNote |-> <<>>,
                 biometrics |-> Undefined]

NoPost == [pc |-> "idle", body |-> Undefined, state |-> Undefined]

NoOutcome == [op |-> "none"]

NoPidFile == [exists |-> FALSE, text |-> ""]

NoCtl == [cmd |-> "none", pc |-> "idle"]

NoEvaluation == [done |-> FALSE, before |-> EmptyContext]

\* The event contexts the host hands to the hook: systemPrecepts missing,
\* an empty list, or a list another plugin has written to.
FreshContexts ==
    {[isArray |-> a, systemPrecepts |-> p, biometricNote |-> <<>>, biometrics |-> Undefined] :
        a \in {TRUE}, p \in {<<>>, <<"GENTLE_TONE">>}} \cup {EmptyContext}

\* ------------------------------------------------------------ the plugin
\* The hook is called: readBiometricState calls readFromSocket, which
\* rejects at once when state.sock does not exist and connects otherwise.
HookInvoke(contexts) ==
    /\ pc = "idle"
    /\ \/ /\ ctx' \in contexts
          /\ evals' = 1
       \/ /\ evals \in 1..(MaxEvals - 1)
          /\ ctx' = ctx
          /\ evals' = evals + 1
    /\ IF sock.status = "absent"
       THEN pc' = "settled" /\ sockResult' = readFromSocket(sock)
       ELSE pc' = "connecting" /\ sockResult' = Thrown
    /\ fetched' = NoFetch
    /\ evaluation' = NoEvaluation
    /\ UNCHANGED <<now, procs, sock, stateFile, post, out>>
    /\ UNCHANGED ctlVars

\* A chunk arrives from a peer that keeps sending without closing: the
\* "data" handler appends it, and the arrival restarts the idle timer that
\* client.setTimeout armed.
SocketData ==
    /\ pc \in {"connecting", "receiving"}
    /\ sock.status = "stream"
    /\ pc' = "receiving"
    /\ UNCHANGED <<now, procs, sock, stateFile, sockResult, ctx, evals, fetched, evaluation,
                   post, out>>
    /\ UNCHANGED ctlVars

\* The connection ends, fails, or stays idle for the timeout: the promise
\* settles.  None of the three happens while the peer keeps sending.
SocketSettle ==
    /\ pc \in {"connecting", "receiving"}
    /\ sock.status # "stream"
    /\ sockResult' = readFromSocket(sock)
    /\ pc' = "settled"
    /\ UNCHANGED <<now, procs, sock, stateFile, ctx, evals, fetched, evaluation, post, out>>
    /\ UNCHANGED ctlVars

\* The rest of the hook runs without suspending: validation or fallback,
\* then the rules.
HookResume ==
    /\ pc = "settled"
    /\ LET r == readBiometricState(sockResult, stateFile, now, procs)
       IN /\ fetched' = r
          /\ IF r.threw
             THEN UNCHANGED <<ctx, evaluation>>
             ELSE /\ ctx' = applyPrecepts(ctx, r.state)
                  /\ evaluation' = [done |-> TRUE, before |-> ctx]
    /\ pc' = "idle"
    /\ UNCHANGED <<now, procs, sock, stateFile, sockResult, evals, post, out>>
    /\ UNCHANGED ctlVars

\* ------------------------------------------------------- the environment
\* The clock advances to a later instant among ts.
Tick(ts) ==
    /\ \E t \in ts : t > now /\ now' = t
    /\ UNCHANGED <<procs, sock, stateFile, hookVars, post, out>>
    /\ UNCHANGED ctlVars

\* The endpoint s is the listening socket of the process pid, which stamps
\* its records with its own pid.
ServedBy(s, pid) ==
    /\ s.status \in {"serve", "silent", "stream"}
    /\ ~Unparsable(s.payload)
    /\ JSON_parse(s.payload).daemon_pid = pid

\* state.sock after the process pid has ended: a listening socket ends with
\* its process, and the path stays behind and refuses connections unless
\* the process removed it on its way out.
SocketAfterExit(s, pid, removed) ==
    IF ServedBy(s, pid)
    THEN IF removed THEN [status |-> "absent", payload |-> GarbageText]
         ELSE [status |-> "refuse", payload |-> GarbageText]
    ELSE s

\* A process ends, by itself or on SIGTERM, and its socket with it.
ProducerExit ==
    /\ \E p \in DOMAIN procs, removed \in BOOLEAN :
          /\ procs[p] # "dead"
          /\ procs' = [procs EXCEPT ![p] = "dead"]
          /\ sock' = SocketAfterExit(sock, p, removed)
    /\ UNCHANGED <<now, stateFile, hookVars, post, out>>
    /\ UNCHANGED ctlVars

ProcExit ==
    /\ \E p \in DOMAIN procs : procs[p] # "dead" /\ procs' = [procs EXCEPT ![p] = "dead"]
    /\ UNCHANGED <<now, sock, stateFile, hookVars, post, out>>
    /\ UNCHANGED ctlVars

\* --------------------------------------------- the read side, all inputs
Rec(s, f, t, ttl, pid, c, src) ==
    [stress_index |-> s, flow_state |-> f, timestamp |-> t, ttl_seconds |-> ttl,
     daemon_pid |-> pid, confidence |-> c, source |-> src]

StressLevels == {0, 150, 700, 710, 850}
Confidences == {0, 500, 510, 900}

RecA == Rec(850, "STRESSED", 0, 5, 1, 900, "keystroke")
RecB == Rec(150, "DEEP_FLOW", 1, 5, MaxPid, 900, "keystroke")

\* Every socket and file condition, with two records to tell the paths apart.
TransportInputs ==
    {[sock |-> s, file |-> f, procs |-> [p \in Pids |-> "alive"]] :
        s \in {NoSocket} \cup
              {[status |-> st, payload |-> GarbageText] : st \in {"refuse", "silent"}} \cup
              {[status |-> "serve", payload |-> t] :
                  t \in {GarbageText, JSON_stringify(JsonNull), Truncated(JSON_stringify(RecA), 3),
                         JSON_stringify(RecA), JSON_stringify(RecB)}},
        f \in {NoFile, GarbageText, JSON_stringify(JsonNull), Truncated(JSON_stringify(RecB), 3),
               JSON_stringify(RecA), JSON_stringify(RecB)}}

\* Timestamps now, past and future, every producer id, a short and a long
\* ttl, under every process table.
ValidatorRecords ==
    {Rec(850, "STRESSED", t, ttl, pid, 900, "keystroke") :
        t \in {0, 1, HalfStaleness}, ttl \in {1, 300}, pid \in -1..(MaxPid + 1)}

ValidatorInputs ==
    UNION {{[sock |-> s, file |-> JSON_stringify(r), procs |-> ps] :
                s \in {NoSocket, [status |-> "serve", payload |-> JSON_stringify(r)]},
                ps \in [Pids -> {"alive", "foreign", "dead"}]} :
           r \in ValidatorRecords}

\* Every stress_index, flow_state and confidence, from a live producer.
PreceptRecords ==
    {Rec(s, f, 0, 5, 1, c, "keystroke") : s \in StressLevels, f \in FlowStates, c \in Confidences}

PreceptInputs ==
    {[sock |-> NoSocket, file |-> JSON_stringify(r), procs |-> [p \in Pids |-> "alive"]] :
        r \in PreceptRecords}

\* Stored records whose stress_index or confidence lies outside [0, 1],
\* fresh and from a live producer, on each channel.
RangeRecords ==
    {Rec(s, "STRESSED", 0, 5, 1, c, "keystroke") :
        s \in {-100, 850, 1500}, c \in {-100, 900, 1500}}

RangeInputs ==
    {[sock |-> s, file |-> JSON_stringify(r), procs |-> [p \in Pids |-> "alive"]] :
        r \in RangeRecords, s \in {NoSocket, [status |-> "serve", payload |-> GarbageText]}} \cup
    {[sock |-> [status |-> "serve", payload |-> JSON_stringify(r)], file |-> NoFile,
      procs |-> [p \in Pids |-> "alive"]] : r \in RangeRecords}

InitRead ==
    /\ now = 0
    /\ \E i \in TransportInputs \cup ValidatorInputs \cup PreceptInputs \cup RangeInputs :
          /\ sock = i.sock
          /\ stateFile = i.file
          /\ procs = i.procs
    /\ pc = "idle"
    /\ sockResult = Thrown
    /\ ctx = EmptyContext
    /\ evals = 0
    /\ fetched = NoFetch
    /\ evaluation = NoEvaluation
    /\ post = NoPost
    /\ out = NoOutcome
    /\ pidFile = NoPidFile
    /\ ctl = NoCtl

NextRead == HookInvoke(FreshContexts) \/ SocketSettle \/ HookResume \/ Tick(Times) \/ ProcExit

SpecRead == InitRead /\ [][NextRead]_vars

\* ------------------------------------------------- the ingestion endpoint
\* The request body a POST handler was given, the state object it built (if
\* it got that far) and the response it sent.
\* pushed: pushToSocket wrote the update to a connection; again: the state
\* object is the one the previous request built.
PostOutcome(d, state, r, pushed) ==
    [op |-> "post", body |-> d, state |-> state, response |-> r, pushed |-> pushed,
     again |-> out.op = "post" /\ out.state = state]

\* Mutant: the file is written only when it does not exist yet.
PostRequest_keep(d, fsOk) ==
    /\ post.pc = "idle"
    /\ IF MissingSignal(d)
       THEN /\ out' = PostOutcome(d, Undefined, BadRequest, FALSE)
            /\ UNCHANGED <<stateFile, post>>
       ELSE IF ~fsOk
       THEN /\ out' = PostOutcome(d, MobileState(d, now), ServerError, FALSE)
            /\ UNCHANGED <<stateFile, post>>
       ELSE LET state == MobileState(d, now)
            IN /\ stateFile' = IF stateFile = NoFile THEN JSON_stringify(state) ELSE stateFile
               /\ IF sock.status = "absent"
                  THEN out' = PostOutcome(d, state, Updated(state), FALSE) /\ UNCHANGED post
                  ELSE post' = [pc |-> "pushing", body |-> d, state |-> state] /\ UNCHANGED out
    /\ UNCHANGED <<envVars, sock, hookVars>>
    /\ UNCHANGED ctlVars

\* POST /openheart/biometrics with body d, up to the first suspension: the
\* validation, the file write (fsOk: whether the file system accepts it) and
\* the start of pushToSocket, which resolves at once without state.sock.
PostRequest(d, fsOk) ==
    /\ post.pc = "idle"
    /\ IF MissingSignal(d)
       THEN /\ out' = PostOutcome(d, Undefined, BadRequest, FALSE)
            /\ UNCHANGED <<stateFile, post>>
       ELSE IF ~fsOk
       THEN /\ out' = PostOutcome(d, MobileState(d, now), ServerError, FALSE)
            /\ UNCHANGED <<stateFile, post>>
       ELSE LET state == MobileState(d, now)
            IN /\ stateFile' = JSON_stringify(state)
               /\ IF sock.status = "absent"
                  THEN out' = PostOutcome(d, state, Updated(state), FALSE) /\ UNCHANGED post
                  ELSE post' = [pc |-> "pushing", body |-> d, state |-> state] /\ UNCHANGED out
    /\ UNCHANGED <<envVars, sock, hookVars>>
    /\ UNCHANGED ctlVars

\* The producer that serves state.sock takes an update command: from then
\* on it delivers that record to whoever connects.
DaemonUpdate(s, state) ==
    IF s.status = "serve" THEN [status |-> "serve", payload |-> JSON_stringify(state)] ELSE s

\* Mutant: a push that did not connect rejects, and the handler's catch
\* block answers 500.
PostPushSettle_reject ==
    /\ post.pc = "pushing"
    /\ \E connected \in IF sock.status \in {"absent", "refuse"} THEN {FALSE} ELSE BOOLEAN :
          /\ sock' = IF connected THEN DaemonUpdate(sock, post.state) ELSE sock
          /\ out' = PostOutcome(post.body, post.state,
                                IF connected THEN Updated(post.state) ELSE ServerError, connected)
    /\ post' = NoPost
    /\ UNCHANGED <<envVars, stateFile, hookVars>>
    /\ UNCHANGED ctlVars

\* pushToSocket settles: the connection is made and the update written, or
\* an error or the timeout comes first; every outcome resolves, and the
\* handler answers.
PostPushSettle ==
    /\ post.pc = "pushing"
    /\ \E connected \in IF sock.status \in {"absent", "refuse"} THEN {FALSE} ELSE BOOLEAN :
          /\ sock' = IF connected THEN DaemonUpdate(sock, post.state) ELSE sock
          /\ out' = PostOutcome(post.body, post.state, Updated(post.state), connected)
    /\ post' = NoPost
    /\ UNCHANGED <<envVars, stateFile, hookVars>>
    /\ UNCHANGED ctlVars

\* GET /openheart/status: what readCurrentState gave the handler, whether it
\* was the record for a missing file, and the response.
StatusGet ==
    /\ LET r == readCurrentState(stateFile)
       IN out' = [op |-> "status", read |-> r, defaulted |-> stateFile = NoFile,
                  at |-> now, response |-> StatusResponse(r, now)]
    /\ UNCHANGED <<envVars, sock, stateFile, hookVars, post>>
    /\ UNCHANGED ctlVars

\* ---------------------------------------------------------------- the CLI
\* openheart simulate runs as a process of its own, whose pid no running
\* process holds.  Simulate is the command up to the point where
\* fs.writeFileSync has opened state.json, which empties the file; with a
\* bad option it exits before that.  Other processes run between the open
\* and the write.
Simulate(o) ==
    /\ ctl = NoCtl
    /\ \E pid \in 1..(MaxPid + 1) :
          /\ ~Running(pid, procs)
          /\ LET r == simulate(o, now, pid)
             IN IF r.exit = 0
                THEN /\ stateFile' = Truncated(JSON_stringify(r.wrote), 0)
                     /\ ctl' = [cmd |-> "simulate", pc |-> "writing", pid |-> pid,
                                state |-> r.wrote]
                     /\ UNCHANGED out
                ELSE /\ out' = [op |-> "simulate", exit |-> r.exit, pid |-> pid, state |-> r.wrote]
                     /\ UNCHANGED <<stateFile, ctl>>
    /\ UNCHANGED <<envVars, sock, hookVars, post, pidFile>>

\* fs.writeFileSync writes the document and closes the file; the command
\* exits with code 0.
SimulateWrite ==
    /\ ctl.cmd = "simulate" /\ ctl.pc = "writing"
    /\ stateFile' = JSON_stringify(ctl.state)
    /\ out' = [op |-> "simulate", exit |-> 0, pid |-> ctl.pid, state |-> ctl.state]
    /\ ctl' = NoCtl
    /\ UNCHANGED <<envVars, sock, hookVars, post, pidFile>>

\* writeStateFile empties and writes state.json within one synchronous
\* call: the hook and the status handler, which run on the same thread,
\* cannot run in between, so PostRequest writes the file in one step.
\* What is at state.sock changes.
SocketChange(conditions) ==
    /\ sock' \in conditions
    /\ sock' # sock
    /\ UNCHANGED <<now, procs, stateFile, hookVars, post, out>>
    /\ UNCHANGED ctlVars

\* --------------------------------------------------- daemon control
\* daemon.pid holding the decimal numeral of pid, as the producer writes it.
PidText(pid) == [exists |-> TRUE, text |-> ToString(pid)]

\* The pids a numeral in daemon.pid may name: those of the process table
\* and one beyond it, which no process ever held.
PidNumbers == 1..(MaxPid + 1)

\* parseInt(text.trim(), 10); NaN is [nan |-> TRUE].
parseInt(text) ==
    IF \E n \in PidNumbers : ToString(n) = text
    THEN [nan |-> FALSE, val |-> CHOOSE n \in PidNumbers : ToString(n) = text]
    ELSE [nan |-> TRUE, val |-> 0]

\* process.kill(pid, signal) returns; it throws a TypeError for NaN, ESRCH
\* for a pid no process holds and EPERM for a process of another user.
SignalSucceeds(n, ps) == ~n.nan /\ KillSucceeds(n.val, ps)

isProcessRunning(n, ps) == SignalSucceeds(n, ps)

\* Mutant: the text of the PID file is handed to process.kill unparsed,
\* which throws.
isDaemonRunning_unparsed(pf, ps) ==
    pf.exists /\ isProcessRunning([nan |-> TRUE, val |-> 0], ps)

isDaemonRunning(pf, ps) == pf.exists /\ isProcessRunning(parseInt(pf.text), ps)

lifeVars == <<now, sock, stateFile, hookVars, post>>

\* startDaemon up to its first sleep: it returns with a warning when the
\* daemon is running and exits with code 1 when the daemon script is not
\* found (scriptFound); otherwise it spawns the producer, detached.
StartInvoke(scriptFound) ==
    /\ ctl = NoCtl
    /\ IF isDaemonRunning(pidFile, procs)
       THEN /\ out' = [op |-> "start", exit |-> 0, warned |-> TRUE, launched |-> 0]
            /\ UNCHANGED <<procs, ctl>>
       ELSE IF ~scriptFound
       THEN /\ out' = [op |-> "start", exit |-> 1, warned |-> FALSE, launched |-> 0]
            /\ UNCHANGED <<procs, ctl>>
       ELSE \E child \in PidNumbers :
               /\ child \in DOMAIN procs /\ procs[child] = "dead"
               /\ procs' = [procs EXCEPT ![child] = "alive"]
               /\ ctl' = [cmd |-> "start", pc |-> "waiting", child |-> child]
               /\ UNCHANGED out
    /\ UNCHANGED <<lifeVars, pidFile>>

\* The producer that start launched records its own pid in daemon.pid.
DaemonRecordsPid ==
    /\ ctl.cmd = "start" /\ ctl.pc = "waiting"
    /\ procs[ctl.child] = "alive"
    /\ pidFile' = PidText(ctl.child)
    /\ pidFile' # pidFile
    /\ UNCHANGED <<lifeVars, procs, out, ctl>>

\* After sleep(1000): the daemon is running and start goes on to the health
\* check, or it is not and start exits with code 1.
StartVerify ==
    /\ ctl.cmd = "start" /\ ctl.pc = "waiting"
    /\ IF isDaemonRunning(pidFile, procs)
       THEN /\ ctl' = [ctl EXCEPT !.pc = "probing"]
            /\ UNCHANGED out
       ELSE /\ out' = [op |-> "start", exit |-> 1, warned |-> FALSE, launched |-> ctl.child]
            /\ ctl' = NoCtl
    /\ UNCHANGED <<lifeVars, procs, pidFile>>

\* healthCheck settles: true on connect, false without state.sock, on an
\* error and on the timeout; start returns either way.
StartProbeSettle ==
    /\ ctl.cmd = "start" /\ ctl.pc = "probing"
    /\ \E healthy \in IF sock.status \in {"absent", "refuse"} THEN {FALSE} ELSE BOOLEAN :
          out' = [op |-> "start", exit |-> 0, warned |-> FALSE, launched |-> ctl.child,
                  healthy |-> healthy]
    /\ ctl' = NoCtl
    /\ UNCHANGED <<lifeVars, procs, pidFile>>

\* Mutant: what process.kill throws is not caught, and stop ends there.
stopNotFound_uncaught(pf) == [threw |-> TRUE, pidFile |-> pf]

\* process.kill(pid, "SIGTERM") threw: the catch block reports it, and the
\* cleanup after the try statement removes the PID file.
stopNotFound(pf) == [threw |-> FALSE, pidFile |-> NoPidFile]

\* The loop condition of stopDaemon.
keepWaiting(attempts, running) == attempts > 0 /\ running

\* Mutant: SIGKILL is sent whatever the last probe says.
forceKill_always(running) == TRUE

\* The test before process.kill(pid, "SIGKILL").
forceKill(running) == running

\* What a stop command did: the PID file it found, the signals it sent, how
\* many times it slept, and whether it ended on an exception.
StopOutcome(found, sent, polls, threw) ==
    [op |-> "stop", found |-> found, sent |-> sent, polls |-> polls, threw |-> threw]

\* stopDaemon up to the polling loop: without a PID file it returns; else
\* it parses the file and sends SIGTERM, and when that throws it goes to
\* the cleanup at once.
StopInvoke ==
    /\ ctl = NoCtl
    /\ IF ~pidFile.exists
       THEN /\ out' = StopOutcome(pidFile, <<>>, 0, FALSE)
            /\ UNCHANGED <<pidFile, ctl>>
       ELSE LET pid == parseInt(pidFile.text)
            IN IF SignalSucceeds(pid, procs)
               THEN /\ ctl' = [cmd |-> "stop", pc |-> "polling", pid |-> pid,
                               attempts |-> StopAttempts, sent |-> <<"SIGTERM">>, polls |-> 0]
                    /\ UNCHANGED <<out, pidFile>>
               ELSE LET r == stopNotFound(pidFile)
                    IN /\ out' = StopOutcome(pidFile, <<>>, 0, r.threw)
                       /\ pidFile' = r.pidFile
                       /\ UNCHANGED ctl
    /\ UNCHANGED <<lifeVars, procs>>

\* One evaluation of the loop condition: sleep(200) and one attempt less,
\* or the end of the polling.
StopPoll ==
    /\ ctl.cmd = "stop" /\ ctl.pc = "polling"
    /\ IF keepWaiting(ctl.attempts, isProcessRunning(ctl.pid, procs))
       THEN ctl' = [ctl EXCEPT !.attempts = @ - 1, !.polls = @ + 1]
       ELSE ctl' = [ctl EXCEPT !.pc = "final"]
    /\ UNCHANGED <<lifeVars, procs, pidFile, out>>

\* After the polling: SIGKILL if the process is still running, which ends
\* it with no chance to remove its socket path; then the PID file is
\* removed and stop returns.
StopFinish ==
    /\ ctl.cmd = "stop" /\ ctl.pc = "final"
    /\ LET running == isProcessRunning(ctl.pid, procs)
           kill == forceKill(running)
       IN /\ procs' = IF kill /\ running THEN [procs EXCEPT ![ctl.pid.val] = "dead"] ELSE procs
          /\ sock' = IF kill /\ running THEN SocketAfterExit(sock, ctl.pid.val, FALSE) ELSE sock
          /\ out' = StopOutcome(pidFile, IF kill THEN Append(ctl.sent, "SIGKILL") ELSE ctl.sent,
                                ctl.polls, FALSE)
    /\ pidFile' = NoPidFile
    /\ ctl' = NoCtl
    /\ UNCHANGED <<now, stateFile, hookVars, post>>

\* readState of the status command, given the peer of state.sock and the
\* file: without the socket path, or on a connection error, the parsed file;
\* on "end" the parsed data; on the timeout a rejection.
readState(s, f) ==
    LET fromFile == IF f = NoFile THEN Thrown
                    ELSE IF JSON_parse_throws(f) THEN Thrown
                    ELSE Returned(JSON_parse(f))
    IN CASE s.status = "absent" -> fromFile
         [] s.status = "refuse" -> fromFile
         [] s.status = "silent" -> Thrown
         [] OTHER -> IF JSON_parse_throws(s.payload) THEN Thrown
                     ELSE Returned(JSON_parse(s.payload))

\* What the status command printed at time t: the daemon line, the socket
\* line, and under "Current Biometric State" either the fields of the
\* record readState resolved to, with its age, or "Unable to read state"
\* (readState rejected, or state.timestamp of null threw).
StatusReport(running, socket, r, t) ==
    LET unable == r.threw \/ ~IsObject(r.val)
    IN [op |-> "report", running |-> running, socket |-> socket, read |-> r,
        unable |-> running /\ unable,
        shown |-> IF running /\ ~unable THEN r.val ELSE Undefined,
        age |-> IF running /\ ~unable THEN t - r.val.timestamp ELSE 0,
        at |-> t]

\* getDaemonStatus up to the connection readState opens: "Not running" and
\* return when the daemon is not running; else the socket line, and the
\* read, which settles at once when state.sock does not exist.
StatusInvoke ==
    /\ ctl = NoCtl
    /\ IF ~isDaemonRunning(pidFile, procs)
       THEN /\ out' = StatusReport(FALSE, FALSE, Thrown, now)
            /\ UNCHANGED ctl
       ELSE IF sock.status = "absent"
       THEN /\ out' = StatusReport(TRUE, FALSE, readState(sock, stateFile), now)
            /\ UNCHANGED ctl
       ELSE /\ ctl' = [cmd |-> "status", pc |-> "reading"]
            /\ UNCHANGED out
    /\ UNCHANGED <<lifeVars, procs, pidFile>>

\* The connection of readState ends, fails or times out, and the command
\* prints the state section.
StatusReadSettle ==
    /\ ctl.cmd = "status" /\ ctl.pc = "reading"
    /\ sock.status # "stream"
    /\ out' = StatusReport(TRUE, TRUE, readState(sock, stateFile), now)
    /\ ctl' = NoCtl
    /\ UNCHANGED <<lifeVars, procs, pidFile>>

\* ------------------------------------------------- the controller alone
\* daemon.pid absent, unparsable, or naming any pid; every process table.
InitCtl ==
    /\ now = 0
    /\ procs \in [PidNumbers -> {"alive", "foreign", "dead"}]
    /\ sock \in {NoSocket, [status |-> "serve", payload |-> JSON_stringify(RecA)]}
    /\ stateFile = NoFile
    /\ pc = "idle"
    /\ sockResult = Thrown
    /\ ctx = EmptyContext
    /\ evals = 0
    /\ fetched = NoFetch
    /\ evaluation = NoEvaluation
    /\ post = NoPost
    /\ out = NoOutcome
    /\ pidFile \in {NoPidFile, [exists |-> TRUE, text |-> "garbage"]} \cup
                   {PidText(p) : p \in PidNumbers}
    /\ ctl = NoCtl

NextCtl ==
    \/ \E scriptFound \in BOOLEAN : StartInvoke(scriptFound)
    \/ DaemonRecordsPid
    \/ StartVerify
    \/ StartProbeSettle
    \/ StopInvoke
    \/ StopPoll
    \/ StopFinish
    \/ ProcExit

SpecCtl == InitCtl /\ [][NextCtl]_vars

\* ------------------------------------- the write side and the status read
Body(has, hrv, hr, ts, src) ==
    [has |-> has, hrv |-> hrv, heart_rate |-> hr, timestamp |-> ts, source |-> src]

\* Bodies with neither signal, with a zero signal, with each signal alone
\* and with both, with and without a timestamp and a source tag.
PostBodies ==
    {Body({}, 0, 0, 0, ""),
     Body({"hrv"}, 0, 0, 0, ""),
     Body({"hrv"}, 90, 0, 0, ""),
     Body({"heart_rate"}, 0, 95, 0, ""),
     Body({"hrv", "heart_rate"}, 0, 95, 0, ""),
     Body({"hrv", "timestamp", "source"}, 30, 0, 1, "apple_watch")}

Options(has, preset, stress, flow) ==
    [has |-> has, preset |-> preset, stress |-> stress, flow |-> flow]

\* No option, a preset, an unknown preset, --stress and --flow alone, valid
\* and invalid, and a preset with both overrides.
SimulateOptions ==
    {Options({}, "", "", ""),
     Options({"preset"}, "calm", "", ""),
     Options({"preset"}, "high-stress", "", ""),
     Options({"preset"}, "bogus", "", ""),
     Options({"stress"}, "", "0.9", ""),
     Options({"stress"}, "", "1.5", ""),
     Options({"flow"}, "", "", "calm"),
     Options({"flow"}, "", "", "bogus"),
     Options({"preset", "stress", "flow"}, "deep-flow", "0.1", "deep_flow")}

\* The instants of the write side: the multiples of half the ceiling.
CoarseTimes == {k * HalfStaleness : k \in 0..MaxTicks}

PushConditions == {NoSocket, [status |-> "refuse", payload |-> GarbageText]}

InitWrite ==
    /\ now = 0
    /\ procs = [p \in Pids |-> "dead"]
    /\ sock = NoSocket
    /\ stateFile \in {NoFile, GarbageText, JSON_stringify(JsonNull)}
    /\ pc = "idle"
    /\ sockResult = Thrown
    /\ ctx = EmptyContext
    /\ evals = 0
    /\ fetched = NoFetch
    /\ evaluation = NoEvaluation
    /\ post = NoPost
    /\ out = NoOutcome
    /\ pidFile = NoPidFile
    /\ ctl = NoCtl

NextWrite ==
    \/ \E d \in PostBodies, fsOk \in BOOLEAN : PostRequest(d, fsOk)
    \/ PostPushSettle
    \/ StatusGet
    \/ \E o \in SimulateOptions : Simulate(o)
    \/ SimulateWrite
    \/ Tick(CoarseTimes)
    \/ SocketChange(PushConditions)

SpecWrite == InitWrite /\ [][NextWrite]_vars

\* ------------------------------------------------ socket peers, fairly
\* The peers of state.sock: none, one that refuses, one that accepts and
\* never sends, one that closes at once, one that closes after part of a
\* record or after a whole record, and one that sends without ever closing.
LivePeers ==
    {NoSocket} \cup
    {[status |-> st, payload |-> GarbageText] : st \in {"refuse", "silent", "stream"}} \cup
    {[status |-> "serve", payload |-> t] :
        t \in {GarbageText, Truncated(JSON_stringify(RecA), 3), JSON_stringify(RecA)}}

InitLive ==
    /\ now = 0
    /\ procs = [p \in Pids |-> "alive"]
    /\ sock \in LivePeers
    /\ stateFile \in {NoFile, JSON_stringify(RecB)}
    /\ pc = "idle"
    /\ sockResult = Thrown
    /\ ctx = EmptyContext
    /\ evals = 0
    /\ fetched = NoFetch
    /\ evaluation = NoEvaluation
    /\ post = NoPost
    /\ out = NoOutcome
    /\ pidFile = NoPidFile
    /\ ctl = NoCtl

NextLive ==
    \/ HookInvoke({EmptyContext})
    \/ SocketData
    \/ SocketSettle
    \/ HookResume
    \/ PostRequest(Body({"hrv"}, 90, 0, 0, ""), TRUE)
    \/ PostPushSettle

\* The event loop delivers every event that stays due: an end, an error or
\* a timer that has run out, and the continuation of a settled promise.
SpecLive ==
    /\ InitLive /\ [][NextLive]_vars
    /\ WF_vars(SocketSettle) /\ WF_vars(HookResume) /\ WF_vars(PostPushSettle)

\* ------------------------------------------ readers next to publishers
\* The hook reads while the ingestion endpoint (same thread) and the
\* simulate command (another process) publish over a complete record.
InitShare ==
    /\ now = 0
    /\ procs = [p \in Pids |-> "dead"]
    /\ sock = NoSocket
    /\ stateFile = JSON_stringify(RecB)
    /\ pc = "idle"
    /\ sockResult = Thrown
    /\ ctx = EmptyContext
    /\ evals = 0
    /\ fetched = NoFetch
    /\ evaluation = NoEvaluation
    /\ post = NoPost
    /\ out = NoOutcome
    /\ pidFile = NoPidFile
    /\ ctl = NoCtl

NextShare ==
    \/ HookInvoke({EmptyContext})
    \/ HookResume
    \/ \E d \in {Body({"hrv"}, 90, 0, 0, ""), Body({"heart_rate"}, 0, 95, 0, "")} :
          PostRequest(d, TRUE)
    \/ \E o \in {Options({}, "", "", ""), Options({"preset"}, "high-stress", "", "")} :
          Simulate(o)
    \/ SimulateWrite
    \/ Tick(CoarseTimes)

SpecShare == InitShare /\ [][NextShare]_vars

\* ------------------------------------------------- publish, then fetch
\* The ingestion endpoint publishes, with and without a timestamp in the
\* body, over an older record; a producer may be serving state.sock.
PublishBodies ==
    {Body({"hrv"}, 90, 0, 0, ""),
     Body({"hrv", "timestamp", "source"}, 30, 0, 1, "apple_watch")}

InitPublish ==
    /\ now = 0
    /\ procs = [p \in Pids |-> "alive"]
    /\ sock \in {NoSocket, [status |-> "serve", payload |-> JSON_stringify(RecA)]}
    /\ stateFile \in {NoFile, JSON_stringify(RecA)}
    /\ pc = "idle"
    /\ sockResult = Thrown
    /\ ctx = EmptyContext
    /\ evals = 0
    /\ fetched = NoFetch
    /\ evaluation = NoEvaluation
    /\ post = NoPost
    /\ out = NoOutcome
    /\ pidFile = NoPidFile
    /\ ctl = NoCtl

NextPublish ==
    \/ \E d \in PublishBodies, fsOk \in BOOLEAN : PostRequest(d, fsOk)
    \/ PostPushSettle
    \/ HookInvoke({EmptyContext})
    \/ SocketSettle
    \/ HookResume
    \/ Tick(CoarseTimes)

SpecPublish == InitPublish /\ [][NextPublish]_vars

\* ----------------------------------------------------- the status command
\* Records of the tracked producer and of another one, which the clock
\* makes stale and whose producers may exit, on the socket or in the file;
\* the file may also hold a record the ingestion endpoint wrote.  The
\* status command and the status endpoint are asked at any time.
StatusRecords == {Rec(850, "STRESSED", 0, 5, pid, 900, "keystroke") : pid \in PidNumbers}

InitStatus ==
    /\ now = 0
    /\ procs \in [PidNumbers -> {"alive", "dead"}]
    /\ sock \in {NoSocket} \cup
                {[status |-> st, payload |-> GarbageText] : st \in {"refuse", "silent", "serve"}} \cup
                {[status |-> "serve", payload |-> JSON_stringify(r)] : r \in StatusRecords}
    /\ stateFile \in {NoFile, GarbageText, JSON_stringify(JsonNull),
                      JSON_stringify(MobileState(Body({"hrv"}, 90, 0, 0, ""), 0))} \cup
                     {JSON_stringify(r) : r \in StatusRecords}
    /\ pc = "idle"
    /\ sockResult = Thrown
    /\ ctx = EmptyContext
    /\ evals = 0
    /\ fetched = NoFetch
    /\ evaluation = NoEvaluation
    /\ post = NoPost
    /\ out = NoOutcome
    /\ pidFile \in {NoPidFile, PidText(1)}
    /\ ctl = NoCtl

NextStatus == StatusInvoke \/ StatusReadSettle \/ StatusGet \/ Tick(Times) \/ ProcExit

SpecStatus == InitStatus /\ [][NextStatus]_vars

\* ------------------------------------------------- the Normalizer alone
\* The hrv (ms) and heart_rate (bpm) values a sample may carry, a negative
\* one included.
SignalInputs == -1..MaxSignal

\* Stress values in thousandths: every hundredth of [0, 1], and the
\* thousandth below and above each.
StressInputs == {k * 10 + e : k \in 0..100, e \in {-1, 0, 1}}

\* One call of a Normalizer function, as handleBiometricsPost makes it: the
\* function, its argument and what it returned.
Normalized(fn, x) ==
    [op |-> "normalize", fn |-> fn, arg |-> x,
     stress |-> CASE fn = "hrvToStress" -> hrvToStress(x)
                  [] fn = "heartRateToStress" -> heartRateToStress(x)
                  [] OTHER -> x,
     flow |-> IF fn = "stressToFlowState" THEN stressToFlowState(x) ELSE ""]

Normalize(fn, inputs) ==
    /\ post.pc = "idle"
    /\ \E x \in inputs : out' = Normalized(fn, x)
    /\ UNCHANGED <<envVars, sock, stateFile, hookVars, post>>
    /\ UNCHANGED ctlVars

InitNormalize ==
    /\ now = 0
    /\ procs = [p \in Pids |-> "dead"]
    /\ sock = NoSocket
    /\ stateFile = NoFile
    /\ pc = "idle"
    /\ sockResult = Thrown
    /\ ctx = EmptyContext
    /\ evals = 0
    /\ fetched = NoFetch
    /\ evaluation = NoEvaluation
    /\ post = NoPost
    /\ out = NoOutcome
    /\ pidFile = NoPidFile
    /\ ctl = NoCtl

\* Each function on each of its inputs, in any order, and the handler
\* composing them on samples with hrv and with heart_rate.
NextNormalize ==
    \/ Normalize("hrvToStress", SignalInputs)
    \/ Normalize("heartRateToStress", SignalInputs)
    \/ Normalize("stressToFlowState", StressInputs)
    \/ \E d \in {Body({"hrv"}, 90, 0, 0, ""), Body({"heart_rate"}, 0, 95, 0, "")} :
          PostRequest(d, TRUE)

SpecNormalize == InitNormalize /\ [][NextNormalize]_vars

\* ------------------------------------------------- stop, then fetch
\* The record a producer with the given pid publishes at time 0.
ProducerRecord(pid) == Rec(850, "STRESSED", 0, 5, pid, 900, "keystroke")

\* A tracked producer, running or already gone, its last record in
\* state.json and, while it runs, on its socket; the hook fetches while
\* stop runs and afterwards.
InitStop ==
    /\ now = 0
    /\ \E p \in PidNumbers :
          /\ pidFile = PidText(p)
          /\ procs \in {ps \in [PidNumbers -> {"alive", "foreign", "dead"}] :
                          \A q \in PidNumbers : q # p => ps[q] = "dead"}
          /\ stateFile \in {NoFile, JSON_stringify(ProducerRecord(p))}
          /\ sock \in IF procs[p] = "dead"
                      THEN {NoSocket, [status |-> "refuse", payload |-> GarbageText]}
                      ELSE {[status |-> "serve", payload |-> JSON_stringify(ProducerRecord(p))]}
    /\ pc = "idle"
    /\ sockResult = Thrown
    /\ ctx = EmptyContext
    /\ evals = 0
    /\ fetched = NoFetch
    /\ evaluation = NoEvaluation
    /\ post = NoPost
    /\ out = NoOutcome
    /\ ctl = NoCtl

NextStop ==
    \/ StopInvoke
    \/ StopPoll
    \/ StopFinish
    \/ ProducerExit
    \/ HookInvoke({EmptyContext})
    \/ SocketSettle
    \/ HookResume
    \/ Tick(CoarseTimes)

SpecStop == InitStop /\ [][NextStop]_vars

\* ================================================================ claims
IsStateRecord(v) == DOMAIN v = {StateKeys[i] : i \in 1..Len(StateKeys)}

HookDone == pc = "idle" /\ evals > 0

SocketFailed == sock.status # "serve" \/ Unparsable(sock.payload)

FileFailed == stateFile = NoFile \/ Unparsable(stateFile)

\* C1: under every socket condition and every file condition, fetch returns a
\* well-formed State Record and raises nothing, and the hook that called it
\* completes with that record in the event context.
C1_FetchNeverThrows ==
    HookDone =>
        /\ ~fetched.threw
        /\ IsStateRecord(fetched.state)
        /\ evaluation.done
        /\ ctx.biometrics = fetched.state

\* C1 witness: the socket and the file both hold JSON null, on which
\* validateState throws, and fetch has returned the default record.
C1_Witness ==
    /\ HookDone
    /\ sock.status = "serve" /\ sock.payload = JSON_stringify(JsonNull)
    /\ stateFile = JSON_stringify(JsonNull)
    /\ fetched.state = getDefaultState(fetched.at)

\* C2: fetch goes through socket, file, default in that order; the file is
\* read only when the socket attempt failed (no endpoint, connection error,
\* timeout, or a payload that does not parse to a record); the default is
\* returned for lack of data only when the file too is absent or does not
\* parse to a record; with neither socket nor file, fetch returns the default.
C2_TransportOrder ==
    HookDone =>
        /\ fetched.trace \in {<<"socket">>, <<"socket", "file">>, <<"socket", "file", "default">>}
        /\ (Len(fetched.trace) >= 2 => SocketFailed)
        /\ (Len(fetched.trace) = 3 => SocketFailed /\ FileFailed)
        /\ (sock.status = "absent" /\ stateFile = NoFile =>
                /\ fetched.trace = <<"socket", "file", "default">>
                /\ fetched.state.stress_index = 0
                /\ fetched.state.flow_state = "UNKNOWN"
                /\ fetched.state.confidence = 0)

\* C2 witness: the socket delivered a record the Validator discarded while
\* the file held another record, and the file was not read.
C2_Witness ==
    /\ HookDone
    /\ sock.status = "serve" /\ sock.payload = JSON_stringify(RecA)
    /\ stateFile = JSON_stringify(RecB)
    /\ fetched.trace = <<"socket">>
    /\ fetched.state = getDefaultState(fetched.at)

\* C3: a record whose daemon_pid is <= 0 is replaced by the default record,
\* whatever its timestamp and other fields.
C3_NonPositivePidDiscarded ==
    (HookDone /\ fetched.validated.called /\ fetched.validated.arg.daemon_pid <= 0) =>
        fetched.state = getDefaultState(fetched.at)

\* C3 witness: a record with daemon_pid 0 and an age within the ceiling was
\* validated.
C3_Witness ==
    /\ HookDone /\ fetched.validated.called
    /\ fetched.validated.arg.daemon_pid = 0
    /\ fetched.at - fetched.validated.arg.timestamp <= MAX_STALENESS_MS
    /\ fetched.at - fetched.validated.arg.timestamp >= 0

\* C4: a record older than 60 seconds is replaced by the default record,
\* whether or not its daemon_pid names a running process.
C4_StaleDiscarded ==
    (HookDone /\ fetched.validated.called
        /\ fetched.at - fetched.validated.arg.timestamp > 60000) =>
        fetched.state = getDefaultState(fetched.at)

\* C4 witness: a record one millisecond over the ceiling, with a long ttl,
\* from a producer that is alive, was validated.
C4_Witness ==
    /\ HookDone /\ fetched.validated.called
    /\ fetched.at - fetched.validated.arg.timestamp = 60001
    /\ fetched.validated.arg.ttl_seconds = 300
    /\ fetched.validated.arg.daemon_pid \in Pids
    /\ procs[fetched.validated.arg.daemon_pid] = "alive"

\* C5: at validation, a record whose daemon_pid names no running process is
\* replaced by the default record even when it is not stale, and a record is
\* returned unchanged only if its age is at most 60 seconds and its producer
\* is running.
C5_DeadProducerDiscarded ==
    [][(pc = "settled" /\ fetched'.validated.called) =>
        LET arg == fetched'.validated.arg
        IN /\ ~Running(arg.daemon_pid, procs) => fetched'.state = getDefaultState(now)
           /\ fetched'.state = arg =>
                 now - arg.timestamp <= 60000 /\ Running(arg.daemon_pid, procs)]_vars

\* C5 witness: a record within the ceiling, with a positive daemon_pid, was
\* replaced by the default record.
C5_Witness ==
    /\ HookDone /\ fetched.validated.called
    /\ fetched.validated.arg.daemon_pid > 0
    /\ fetched.at - fetched.validated.arg.timestamp <= MAX_STALENESS_MS
    /\ fetched.state = getDefaultState(fetched.at)

PriorDirectives(c) == IF c.isArray THEN c.systemPrecepts ELSE <<>>

\* C7: an evaluation of a record with confidence <= 0.5 adds neither
\* directive and writes no note, whatever stress_index and flow_state are.
C7_LowConfidenceNoDirective ==
    (HookDone /\ evaluation.done /\ fetched.state.confidence <= 500) =>
        /\ ctx.systemPrecepts = PriorDirectives(evaluation.before)
        /\ ctx.biometricNote = evaluation.before.biometricNote

\* C7 witness: a record with confidence exactly 0.5, stress_index 0.85 and
\* flow_state DEEP_FLOW was evaluated.
C7_Witness ==
    /\ HookDone /\ evaluation.done
    /\ fetched.state.confidence = 500
    /\ fetched.state.stress_index = 850
    /\ fetched.state.flow_state = "DEEP_FLOW"

\* C8: on an event with no prior directives the directive list is
\* CONCISE_MODE exactly when stress_index > 0.7 and confidence > 0.5, then
\* NO_INTERRUPT exactly when flow_state = DEEP_FLOW and confidence > 0.5;
\* 0.85 at confidence 0.9 gives [CONCISE_MODE]; DEEP_FLOW at 0.15 and
\* confidence 0.9 gives [NO_INTERRUPT].
C8_RulesFire ==
    (HookDone /\ evaluation.done /\ PriorDirectives(evaluation.before) = <<>>) =>
        LET st == fetched.state
            concise == st.stress_index > 700 /\ st.confidence > 500
            noInterrupt == st.flow_state = "DEEP_FLOW" /\ st.confidence > 500
        IN /\ ctx.systemPrecepts =
                 (IF concise THEN <<"CONCISE_MODE">> ELSE <<>>) \o
                 (IF noInterrupt THEN <<"NO_INTERRUPT">> ELSE <<>>)
           /\ (st.stress_index = 850 /\ st.confidence = 900 /\ st.flow_state # "DEEP_FLOW"
                 => ctx.systemPrecepts = <<"CONCISE_MODE">>)
           /\ (st.stress_index = 150 /\ st.confidence = 900 /\ st.flow_state = "DEEP_FLOW"
                 => ctx.systemPrecepts = <<"NO_INTERRUPT">>)

\* C8 witness: both rules fired on an event with no prior directives.
C8_Witness ==
    /\ HookDone /\ evaluation.done
    /\ PriorDirectives(evaluation.before) = <<>>
    /\ fetched.state.stress_index = 850 /\ fetched.state.flow_state = "DEEP_FLOW"
    /\ fetched.state.confidence = 900
    /\ ctx.systemPrecepts = <<"CONCISE_MODE", "NO_INTERRUPT">>

NoDuplicates(q) == \A i, j \in 1..Len(q) : i # j => q[i] # q[j]

SameSignal(a, b) ==
    /\ IsStateRecord(a) /\ IsStateRecord(b)
    /\ a.stress_index = b.stress_index
    /\ a.flow_state = b.flow_state
    /\ a.confidence = b.confidence

\* C9: every evaluation starts from an empty directive set: no directive
\* appears twice, and evaluating the same record again on the same event
\* context leaves the directive list of the first evaluation.
C9_EvaluationIdempotent ==
    (HookDone /\ evaluation.done) =>
        /\ NoDuplicates(ctx.systemPrecepts)
        /\ (evals >= 2 /\ SameSignal(fetched.state, evaluation.before.biometrics)
              => ctx.systemPrecepts = evaluation.before.systemPrecepts)

\* C6: every degradation path substitutes the one default record, with
\* stress_index 0, flow_state UNKNOWN, confidence 0, ttl_seconds 0,
\* daemon_pid <= 0, source "default" and the time of the read as timestamp:
\* fetch when neither channel yields a record, and the status endpoint's
\* read when state.json does not exist.
C6_SingleDefault ==
    /\ (HookDone /\ Len(fetched.trace) = 3 => fetched.state = getDefaultState(fetched.at))
    /\ (out.op = "status" /\ out.defaulted =>
            out.read = Returned(getDefaultState(out.at)))

\* C10: every record that the ingestion endpoint or the simulate command has
\* written to state.json has the flow_state that stressToFlowState gives for
\* its stress_index.
C10_FlowConsistent ==
    (out.op \in {"post", "simulate"} /\ ~Unparsable(stateFile)) =>
        LET state == JSON_parse(stateFile)
        IN state.flow_state = stressToFlowState(state.stress_index)

InUnitRange(x) == x >= 0 /\ x <= 1000

\* C11: every record fetch returns to the hook, and every record the
\* ingestion endpoint has written, has stress_index and confidence within
\* [0, 1]; a stored record outside the range is clamped, not passed on.
C11_RangeClamped ==
    /\ (HookDone /\ ~fetched.threw =>
            /\ InUnitRange(fetched.state.stress_index)
            /\ InUnitRange(fetched.state.confidence)
            /\ InUnitRange(ctx.biometrics.stress_index)
            /\ InUnitRange(ctx.biometrics.confidence))
    /\ (out.op = "post" /\ out.response.code = 200 =>
            /\ InUnitRange(JSON_parse(stateFile).stress_index)
            /\ InUnitRange(JSON_parse(stateFile).confidence))

PostDone == out.op = "post"

Accepted == PostDone /\ out.response.code = 200

\* C12: a sample with heart_rate 95 and no hrv is normalized to stress_index
\* 0.9, confidence 0.6 and flow_state STRESSED.
C12_HeartRate95 ==
    (Accepted /\ out.body.has = {"heart_rate"} /\ out.body.heart_rate = 95) =>
        /\ out.state.stress_index = 900
        /\ out.state.confidence = 600
        /\ out.state.flow_state = "STRESSED"
        /\ out.response.stress_index = 900
        /\ out.response.flow_state = "STRESSED"

\* C13: on every accepted sample, one that supplies hrv (with or without
\* heart_rate, hrv = 0 included) gets its stress_index from hrv and
\* confidence 0.9; one that supplies heart_rate alone gets its stress_index
\* from heart_rate and confidence 0.6.
C13_SignalPrecedence ==
    Accepted =>
        IF "hrv" \in out.body.has
        THEN /\ out.state.stress_index = hrvToStress(out.body.hrv)
             /\ out.state.confidence = 900
        ELSE /\ out.state.stress_index = heartRateToStress(out.body.heart_rate)
             /\ out.state.confidence = 600

\* A step in which a POST handler answers.
PostAnswers == out' # out /\ out'.op = "post"

\* C14: the ingestion endpoint rejects a sample exactly when it supplies
\* neither hrv nor heart_rate, whatever the values supplied (0 included);
\* a rejection answers with an error and leaves state.json and the socket
\* as they were, with no push begun.
C14_RejectsExactlyEmpty ==
    [][PostAnswers =>
        /\ (out'.response.code = 400 <=> out'.body.has \cap {"hrv", "heart_rate"} = {})
        /\ (out'.response.code = 400 =>
                /\ "error" \in DOMAIN out'.response
                /\ stateFile' = stateFile
                /\ sock' = sock
                /\ post.pc = "idle" /\ post'.pc = "idle")]_vars

\* C15: whatever the peer of state.sock does, a fetch that has begun
\* returns to the hook, and a publish that has begun its push is answered:
\* no socket operation stays pending forever.
C15_SocketOperationsSettle ==
    /\ (pc # "idle") ~> (pc = "idle")
    /\ (post.pc = "pushing") ~> (post.pc = "idle")

\* The hook's fetch reads state.json in this step.
FileRead == pc = "settled" /\ pc' = "idle" /\ Len(fetched'.trace) >= 2

\* C16: a read of state.json that runs next to a publish sees a complete
\* record, the previous one or the new one, never a partially written file.
C16_AtomicReplace ==
    [][FileRead =>
        /\ ~JSON_parse_throws(stateFile)
        /\ IsStateRecord(JSON_parse(stateFile))
        /\ Len(fetched'.trace) = 2]_vars

\* The last request published out.state, on the file and, where a producer
\* serves the socket, on the socket, and nothing is being published now.
Published ==
    /\ Accepted /\ post.pc = "idle"
    /\ sock.status = "serve" => out.pushed

\* The hook's fetch completes in this step, on what the socket delivers now.
FetchReturns == pc = "settled" /\ pc' = "idle" /\ sockResult = readFromSocket(sock)

\* C17: a fetch after a record was published, once or twice, is given the
\* published record, whichever path serves it: state.json holds the record's
\* document, the Validator is called on the record, and the result is what
\* the Validator makes of it.
C17_PublishIdempotent ==
    [][Published /\ FetchReturns =>
        /\ stateFile = JSON_stringify(out.state)
        /\ fetched'.validated.called
        /\ fetched'.validated.arg = out.state
        /\ fetched'.state = validateState(out.state, now, procs)]_vars

\* C17 witness: the same record was published twice in a row, the second
\* time through the socket too, and the fetch got it from the socket.
C17_Witness ==
    /\ HookDone /\ Accepted /\ post.pc = "idle"
    /\ out.again /\ out.pushed
    /\ fetched.trace = <<"socket">>
    /\ fetched.validated.arg = out.state

\* The PID file names a process that the controller's probe finds running.
TrackedAlive == pidFile.exists /\ SignalSucceeds(parseInt(pidFile.text), procs)

\* A start command begins in this step.
StartBegins == ctl = NoCtl /\ (ctl'.cmd = "start" \/ (out' # out /\ out'.op = "start"))

\* C18: start, invoked while the tracked process id names a live process,
\* launches no process, leaves the PID file as it is and returns normally
\* with a warning.
C18_StartWhileRunning ==
    [][TrackedAlive /\ StartBegins =>
        /\ procs' = procs
        /\ pidFile' = pidFile
        /\ ctl' = NoCtl
        /\ out'.exit = 0 /\ out'.warned /\ out'.launched = 0]_vars

\* C18 witness: start has returned with its warning while the tracked
\* process runs and another pid was free for a launch.
C18_Witness ==
    /\ out.op = "start" /\ out.warned
    /\ TrackedAlive
    /\ \E p \in DOMAIN procs : procs[p] = "dead"

\* C19: whenever stop has completed, the PID file is absent and stop has
\* raised no error, whether the tracked process was alive, dead, never
\* existed, or the file was unparsable.
C19_StopClearsPidFile ==
    (out.op = "stop" /\ ctl = NoCtl) => ~pidFile.exists /\ ~out.threw

\* C19 witness: stop has completed on a PID file that named no process: it
\* was unparsable.
C19_Witness ==
    /\ out.op = "stop" /\ ctl = NoCtl
    /\ out.found.exists /\ parseInt(out.found.text).nan
    /\ ~pidFile.exists

Sigs(q) == {q[i] : i \in 1..Len(q)}

\* C20: stop sends SIGTERM first, sleeps at most 10 times while polling,
\* and sends SIGKILL exactly when the process is still running after the
\* polling has ended; SIGKILL never comes before SIGTERM.
C20_StopEscalation ==
    [][/\ (ctl'.cmd = "stop" =>
             /\ ctl'.sent = <<"SIGTERM">>
             /\ ctl'.polls <= 10 /\ ctl'.polls + ctl'.attempts = StopAttempts)
       /\ (out'.op = "stop" =>
             /\ out'.sent \in {<<>>, <<"SIGTERM">>, <<"SIGTERM", "SIGKILL">>}
             /\ out'.polls <= 10)
       /\ (ctl.cmd = "stop" /\ ctl.pc = "final" /\ ctl' = NoCtl =>
             ("SIGKILL" \in Sigs(out'.sent) <=> isProcessRunning(ctl.pid, procs)))
       /\ (ctl.cmd = "stop" /\ ctl.pc = "polling" /\ ctl'.pc = "final" =>
             ctl.attempts = 0 \/ ~isProcessRunning(ctl.pid, procs))]_vars

\* C20 witness: stop has slept 10 times and then sent SIGKILL.
C20_Witness ==
    /\ out.op = "stop" /\ ctl = NoCtl
    /\ out.polls = 10
    /\ out.sent = <<"SIGTERM", "SIGKILL">>

\* The status command prints its state section in this step.
StatusReports == out'.op = "report" /\ (out' # out \/ ctl' # ctl)

\* C21: the status command tells apart "producer not running", "running
\* but the record is stale or from a dead producer" and "running and the
\* record fresh": the record it displays is what the Validator makes of the
\* record it read, so a stale record or one whose producer is dead is shown
\* as the default record, not as the current state.
C21_StatusThroughValidator ==
    [][(StatusReports /\ out'.running /\ ~out'.unable) =>
        out'.shown = validateState(out'.read.val, now, procs)]_vars

\* The simulate command has written out.state and exited; state.json still
\* holds that record, within the staleness ceiling, and there is no socket.
Simulated ==
    /\ out.op = "simulate" /\ out.exit = 0 /\ ctl = NoCtl
    /\ stateFile = JSON_stringify(out.state)
    /\ sock.status = "absent"
    /\ now - out.state.timestamp <= MAX_STALENESS_MS

\* The hook's fetch and evaluation complete in this step.
HookCompletes == pc = "settled" /\ pc' = "idle"

\* C22: a fetch after the simulate command has written a record and exited
\* (no socket, within the staleness ceiling) returns the simulated record;
\* after the high-stress preset the event carries CONCISE_MODE.
C22_SimulateThenFetch ==
    [][Simulated /\ HookCompletes =>
        /\ fetched'.state = out.state
        /\ (out.state.stress_index = 900 => "CONCISE_MODE" \in Sigs(ctx'.systemPrecepts))]_vars

\* The ingestion endpoint has published out.state; state.json holds it,
\* within the staleness ceiling, and the socket yields no record.
PublishedToFile ==
    /\ Accepted /\ post.pc = "idle"
    /\ stateFile = JSON_stringify(out.state)
    /\ SocketFailed
    /\ now - out.state.timestamp <= MAX_STALENESS_MS

\* C23: a fetch that falls back to the file after the ingestion endpoint
\* published a fresh record returns that record, and the hook evaluates its
\* rules on the HRV- or heart-rate-derived stress, not on the default record.
C23_PublishThenFetch ==
    [][PublishedToFile /\ HookCompletes /\ sockResult = readFromSocket(sock) =>
        /\ fetched'.state = out.state
        /\ ctx'.biometrics = out.state
        /\ fetched'.state.source # "default"]_vars

\* The step calls fn, and the step before called it too.
Calls(fn) == out'.op = "normalize" /\ out'.fn = fn

CalledBefore(fn) == out.op = "normalize" /\ out.fn = fn

\* C24: hrvToStress returns 0.1 for hrv >= 100, 0.2 for >= 80, 0.4 for
\* >= 60, 0.6 for >= 40, 0.8 for >= 25 and 0.95 otherwise, and is
\* non-increasing: of two calls, the one with the larger hrv returns no more.
C24_HrvBands ==
    [][Calls("hrvToStress") =>
        LET hrv == out'.arg
        IN /\ out'.stress = (CASE hrv >= 100 -> 100
                               [] hrv >= 80 /\ hrv < 100 -> 200
                               [] hrv >= 60 /\ hrv < 80 -> 400
                               [] hrv >= 40 /\ hrv < 60 -> 600
                               [] hrv >= 25 /\ hrv < 40 -> 800
                               [] OTHER -> 950)
           /\ (CalledBefore("hrvToStress") /\ out.arg <= hrv => out.stress >= out'.stress)]_vars

\* C24 witness: hrvToStress has been called on the band limit 100 and has
\* returned 0.1.
C24_Witness ==
    /\ out.op = "normalize" /\ out.fn = "hrvToStress"
    /\ out.arg = 100 /\ out.stress = 100

\* C25: heartRateToStress returns 0.2 for hr < 60, 0.3 for < 70, 0.5 for
\* < 80, 0.6 for < 90, 0.75 for < 100 and 0.9 otherwise, and is
\* non-decreasing: of two calls, the one with the larger hr returns no less.
C25_HeartRateBands ==
    [][Calls("heartRateToStress") =>
        LET hr == out'.arg
        IN /\ out'.stress = (CASE hr < 60 -> 200
                               [] hr >= 60 /\ hr < 70 -> 300
                               [] hr >= 70 /\ hr < 80 -> 500
                               [] hr >= 80 /\ hr < 90 -> 600
                               [] hr >= 90 /\ hr < 100 -> 750
                               [] OTHER -> 900)
           /\ (CalledBefore("heartRateToStress") /\ out.arg <= hr =>
                  out.stress <= out'.stress)]_vars

\* C25 witness: heartRateToStress has been called on the band limit 100 and
\* has returned 0.9.
C25_Witness ==
    /\ out.op = "normalize" /\ out.fn = "heartRateToStress"
    /\ out.arg = 100 /\ out.stress = 900

\* C26: stressToFlowState returns DEEP_FLOW for stress < 0.25, CALM for
\* < 0.40, NORMAL for < 0.65 and STRESSED otherwise, never UNKNOWN; a
\* sample with hrv 90 is given stress_index 0.2 and flow_state DEEP_FLOW.
C26_FlowBands ==
    [][/\ (Calls("stressToFlowState") =>
             LET stress == out'.arg
             IN /\ out'.flow = (CASE stress < 250 -> "DEEP_FLOW"
                                  [] stress >= 250 /\ stress < 400 -> "CALM"
                                  [] stress >= 400 /\ stress < 650 -> "NORMAL"
                                  [] OTHER -> "STRESSED")
                /\ out'.flow # "UNKNOWN")
       /\ (out'.op = "post" /\ out'.body.has = {"hrv"} /\ out'.body.hrv = 90 =>
             /\ out'.state.stress_index = 200
             /\ out'.state.flow_state = "DEEP_FLOW")]_vars

\* C26 witness: stressToFlowState has been called on the band limit 0.25
\* and has returned CALM.
C26_Witness ==
    /\ out.op = "normalize" /\ out.fn = "stressToFlowState"
    /\ out.arg = 250 /\ out.flow = "CALM"

\* C27: publish writes state.json before it begins the socket push, and
\* whatever the push meets (no endpoint, a connection error, the timeout, a
\* peer that never answers) the caller gets the success response for the
\* record, which state.json holds.
C27_PushNeverFails ==
    [][/\ (post.pc = "idle" /\ post'.pc = "pushing" =>
             stateFile' = JSON_stringify(post'.state) /\ out' = out /\ sock' = sock)
       /\ (post.pc = "pushing" /\ post'.pc = "idle" =>
             /\ stateFile = JSON_stringify(post.state)
             /\ stateFile' = stateFile
             /\ out'.response = Updated(post.state))
       /\ (PostAnswers =>
             /\ out'.response.code = 200
             /\ stateFile' = JSON_stringify(out'.state))]_vars

\* C27 witness: a publish was answered "updated" although its push met a
\* peer that refuses connections, over a file that held another record.
C27_Witness ==
    /\ Accepted /\ post.pc = "idle"
    /\ sock.status = "refuse" /\ ~out.pushed
    /\ stateFile = JSON_stringify(out.state)

\* A start command that launched a process returns in this step.
StartReturnsLaunched == out' # out /\ out'.op = "start" /\ out'.launched # 0

\* C28: when start returns after launching a producer, the PID file exists
\* and names the launched process, whatever that process has done itself.
C28_StartRecordsPid ==
    [][StartReturnsLaunched =>
        /\ pidFile'.exists
        /\ ~parseInt(pidFile'.text).nan
        /\ parseInt(pidFile'.text).val = out'.launched]_vars

NonBlank(line) == line # ""

\* The notes of the rules that fire on state, in rule order.
FiredNotes(state) ==
    (IF Rule1(state) THEN NoteStress(state.stress_index) ELSE <<>>) \o
    (IF Rule2(state) THEN NoteFlow ELSE <<>>)

\* C29: after an evaluation the advisory note is the note of rule 1 (which
\* states the record's stress_index) if it fired, followed by the note of
\* rule 2 if it fired, and nothing else: no text of an earlier evaluation
\* of the same event context remains.
C29_NoteOfThisEvaluation ==
    (HookDone /\ evaluation.done) =>
        /\ SelectSeq(ctx.biometricNote, NonBlank) = FiredNotes(fetched.state)
        /\ (Rule1(fetched.state) =>
              \E i \in 1..Len(ctx.biometricNote) :
                  ctx.biometricNote[i] = ToString(fetched.state.stress_index))

\* ttl_seconds values: none, shorter than any age above a second, the
\* producer's usual one, and one longer than the staleness ceiling.
TtlValues == {0, 1, 5, 300}

\* The Validator returns the record it was given.
Accepts(state, t, ps) == validateState(state, t, ps) = state

\* C30: the Validator's decision does not depend on ttl_seconds: when fetch
\* validates a record, the record is accepted exactly when the same record
\* with any other ttl_seconds would be accepted at that instant.
C30_TtlIndependent ==
    [][(HookCompletes /\ fetched'.validated.called) =>
        \A ttl \in TtlValues :
            LET arg == fetched'.validated.arg
                other == [arg EXCEPT !.ttl_seconds = ttl]
            IN (fetched'.state = arg) <=> Accepts(other, now, procs)]_vars

\* C30 witness: a record 30 seconds old whose ttl_seconds is 1 was
\* validated and returned.
C30_Witness ==
    /\ HookDone /\ fetched.validated.called
    /\ fetched.validated.arg.ttl_seconds = 1
    /\ fetched.at - fetched.validated.arg.timestamp = HalfStaleness
    /\ fetched.state = fetched.validated.arg

\* C31: when the persisted record state.json fails to parse, the caller of
\* fetch is given a rejection, not the default record.
C31_UnparsableRejected ==
    [][FileRead /\ stateFile # NoFile /\ JSON_parse_throws(stateFile) =>
        /\ fetched'.threw
        /\ fetched'.state # getDefaultState(now)]_vars

\* readFromSocket resolved with a State Record.
SocketDelivered == ~sockResult.threw /\ IsObject(sockResult.val)

\* C32: the file is consulted only when the socket path delivers no
\* parsable record; when the socket delivers a record, fetch returns what
\* the Validator makes of that record (the default record if it is stale or
\* its producer is dead) and does not read the file, whatever the file holds.
C32_SocketRecordDecides ==
    [][HookCompletes =>
        /\ (SocketDelivered =>
              /\ fetched'.trace = <<"socket">>
              /\ fetched'.validated = ValidatedFrom(sockResult.val)
              /\ fetched'.state = validateState(sockResult.val, now, procs))
        /\ (Len(fetched'.trace) >= 2 => ~SocketDelivered)]_vars

\* C32 witness: the socket delivered a record just over the ceiling while
\* the file held a record within it from a live producer; fetch returned
\* the default record from the socket strategy.
C32_Witness ==
    /\ HookDone
    /\ sock.status = "serve" /\ sock.payload = JSON_stringify(RecA)
    /\ stateFile = JSON_stringify(RecB)
    /\ fetched.at = MAX_STALENESS_MS + 1
    /\ Accepts(RecB, fetched.at, procs)
    /\ fetched.trace = <<"socket">>
    /\ fetched.state = getDefaultState(fetched.at)

\* stop has completed and no producer process is left.
Stopped ==
    /\ out.op = "stop" /\ ctl = NoCtl
    /\ \A p \in DOMAIN procs : procs[p] = "dead"

\* C33: once stop has completed and the producer has exited, a fetch
\* returns the default record and the hook adds no directive, whatever
\* record the producer left in state.json and whatever is left of its socket.
C33_DefaultAfterStop ==
    [][Stopped /\ HookCompletes =>
        /\ fetched'.state = getDefaultState(now)
        /\ ctx'.systemPrecepts = PriorDirectives(ctx)
        /\ ctx'.biometricNote = ctx.biometricNote]_vars

\* C33 witness: stop sent SIGTERM to the producer, which exited; its record,
\* still within the ceiling, was read from state.json and discarded.
C33_Witness ==
    /\ HookDone /\ out.op = "stop" /\ ctl = NoCtl
    /\ out.sent = <<"SIGTERM">>
    /\ \A p \in DOMAIN procs : procs[p] = "dead"
    /\ fetched.trace = <<"socket", "file">>
    /\ fetched.validated.called
    /\ fetched.at - fetched.validated.arg.timestamp <= MAX_STALENESS_MS
    /\ fetched.state = getDefaultState(fetched.at)

\* start spawns a producer in this step.
StartLaunches == ctl = NoCtl /\ ctl'.cmd = "start"

\* The process the previous start command launched is still alive.
EarlierLaunchAlive ==
    /\ out.op = "start" /\ out.launched # 0
    /\ procs[out.launched] = "alive"

\* C34: at most one producer launched by the controller is alive at a time:
\* start launches none while the producer launched by the previous start,
\* which may have reported failure, is still running.
C34_SingleProducer ==
    [][StartLaunches => ~EarlierLaunchAlive]_vars

\* C35: a record the Validator returns unchanged has, at validation time,
\* an age of at least 0 and at most the staleness ceiling: a timestamp in
\* the future of the reader's clock is not accepted.
C35_AgeWithinCeiling ==
    (HookDone /\ fetched.validated.called /\ fetched.state = fetched.validated.arg) =>
        /\ fetched.at - fetched.state.timestamp >= 0
        /\ fetched.at - fetched.state.timestamp <= MAX_STALENESS_MS

\* The status endpoint answers in this step.
StatusAnswers == out'.op = "status" /\ out' # out

\* Some producer process is running.
ProducerAlive == \E p \in DOMAIN procs : KillSucceeds(p, procs)

\* C36: the status endpoint reports daemon_running = true exactly when a
\* producer process is alive at the time of the request: not for a dead
\* producer whose record is still in state.json, and not false for a live
\* producer whose file holds a record of the ingestion endpoint.
C36_DaemonRunningIsLiveness ==
    [][StatusAnswers => (out'.response.daemon_running <=> ProducerAlive)]_vars

====
